---- MODULE Spec2Model ----
(***************************************************************************)
(* Model of the yoto-auto-icons matcher (src/src/matchIcon.ts) and of the  *)
(* apply-mode batch driver that calls it (analyzePlaylist).                *)
(*                                                                         *)
(* A JavaScript string is a sequence of characters; a character is one of  *)
(* the atoms below.  "he", "vav" and "gimel" stand for the letters         *)
(* U+05D4, U+05D5 and U+05D2 of the block U+0590..U+05FF, "TAB" for the    *)
(* tab character and "!" for any character outside \w, \s and the block.   *)
(***************************************************************************)
EXTENDS Integers, Sequences, FiniteSets, TLC

VARIABLES
    title,              \* the title argument of the call under study
    text,               \* SpecNorm: the string normalizeText was last applied to / returned
    prev,               \* SpecNorm: the argument of the last normalizeText call
    calls,              \* SpecNorm: number of normalizeText applications so far
    terms,              \* SpecNorm: the last result of extractKeywords
    synonymsFile,       \* content of the synonyms file (a table, or Unreadable)
    iconMappingsFile,   \* content of data/yoto_icon_ids_<language>.json (or Unreadable)
    synonymsCache,      \* matchIcon.ts:7
    iconMappingsCache,  \* matchIcon.ts:8
    op,                 \* the exported function called last ("none" before the first call)
    limitArg,           \* the limit argument of that call, when it was suggestMatches
    ret,                \* the value that call returned
    pc,                 \* analyzePlaylist: position in the function
    playlist,           \* analyzePlaylist: titles of playlist.tracks
    idx,                \* analyzePlaylist: number of tracks whose iteration has completed
    pending,            \* analyzePlaylist: the matchIcon result of the track awaiting the AI answer
    batchMappings,      \* analyzePlaylist: const iconMappings (part_002:39)
    availableKeywords,  \* analyzePlaylist: const availableKeywords (part_002:40)
    matches,            \* analyzePlaylist: the matches array
    stats,              \* analyzePlaylist: the stats object
    aiReply,            \* aiMatchKeyword: the answer its last call received (NoReturn before)
    apply,              \* updateCardWithIcons: its call, the card on the server, the requests sent
    plan,               \* runPlanMode: its locals, the icon-mapping file it writes
    net,                \* the external requests awaited; whether a sleep has run since the last one
    lang                \* the language argument of the call, and the Hebrew files

vars == <<title, text, prev, calls, terms, synonymsFile, iconMappingsFile,
          synonymsCache, iconMappingsCache, op, limitArg, ret, pc, playlist, idx, pending, batchMappings,
          availableKeywords, matches, stats, aiReply, apply, plan, net, lang>>

normVars == <<text, prev, calls, terms>>
storeVars == <<synonymsFile, iconMappingsFile, synonymsCache, iconMappingsCache>>
callVars == <<op, limitArg, ret>>
batchVars == <<pc, playlist, idx, pending, batchMappings, availableKeywords, matches, stats, aiReply>>
modeVars == <<apply, plan, lang>>

-----------------------------------------------------------------------------
(* Bounds *)

MaxNormLen == 4      \* longest input string of SpecNorm
MaxTitleLen == 3     \* longest title of Spec
MaxKeywords == 2     \* most keywords in a synonym table of Spec
MaxLimit == 2        \* largest limit passed to suggestMatches
MaxTracks == 3       \* longest playlist of SpecBatch
MaxChapters == 2     \* most chapters of a card of SpecApply
MaxIcons == 3        \* most icon ids in the list plan mode reads
MaxStartFrom == 2    \* largest --start-from of SpecPlan
MaxBatchSize == 2    \* largest --batch-size of SpecPlan
MaxTermLen == 5      \* longest title of SpecTerms

-----------------------------------------------------------------------------
(* Characters and strings *)

\* null / undefined of a `string | null` value: no string holds this atom
Null == <<"null">>

HebrewChars == {"he", "vav", "gimel"}          \* [\u0590-\u05FF]
WordChars == {"a", "b", "A", "_"}             \* \w = [A-Za-z0-9_]
SpaceChars == {" ", "TAB"}                     \* \s
OtherChars == {"!"}                            \* everything else
NormAlphabet == {"a", "A", "_", " ", "TAB", "!", "he", "vav", "gimel"}
TitleAlphabet == {"a", "b", " ", "he", "gimel"}

StringsUpTo(alphabet, n) == UNION {[1..k -> alphabet] : k \in 0..n}

\* String.prototype.toLowerCase, per character
LowerChar(c) == IF c = "A" THEN "a" ELSE c
toLowerCase(s) == [i \in 1..Len(s) |-> LowerChar(s[i])]

\* String.prototype.trim: drop leading and trailing white space
RECURSIVE trimStart(_)
trimStart(s) ==
    IF s # <<>> /\ Head(s) \in SpaceChars THEN trimStart(Tail(s)) ELSE s
RECURSIVE trimEnd(_)
trimEnd(s) ==
    IF s # <<>> /\ s[Len(s)] \in SpaceChars
    THEN trimEnd(SubSeq(s, 1, Len(s) - 1)) ELSE s
trim(s) == trimEnd(trimStart(s))

\* .replace(/[^\w\s\u0590-\u05FF]/g, ' ')
KeptChar(c) == c \in WordChars \cup SpaceChars \cup HebrewChars
replacePunctuation(s) == [i \in 1..Len(s) |-> IF KeptChar(s[i]) THEN s[i] ELSE " "]

\* .replace(/\s+/g, ' '): every maximal run of white space becomes one space
RECURSIVE collapseSpaces(_)
collapseSpaces(s) ==
    IF s = <<>> THEN <<>>
    ELSE IF Head(s) \in SpaceChars
         THEN <<" ">> \o collapseSpaces(trimStart(s))
         ELSE <<Head(s)>> \o collapseSpaces(Tail(s))

\* a mutant of normalizeText: the final trim() is missing
normalizeTextNoFinalTrim(t) ==
    collapseSpaces(replacePunctuation(trim(toLowerCase(t))))

normalizeText(t) ==
    trim(collapseSpaces(replacePunctuation(trim(toLowerCase(t)))))

\* String.prototype.startsWith
startsWith(s, p) == Len(s) >= Len(p) /\ SubSeq(s, 1, Len(p)) = p

\* String.prototype.substring(n)
substring(s, n) == SubSeq(s, n + 1, Len(s))

\* String.prototype.includes: p occurs in s as a contiguous substring
includes(s, p) ==
    \E i \in 0..(Len(s) - Len(p)) : SubSeq(s, i + 1, i + Len(p)) = p

\* /[\u0590-\u05FF]/.test(s)
hasHebrew(s) == \E i \in 1..Len(s) : s[i] \in HebrewChars

\* String.prototype.split(' '): the pieces between the single spaces
RECURSIVE split(_)
split(s) ==
    IF \A i \in 1..Len(s) : s[i] # " " THEN <<s>>
    ELSE LET k == CHOOSE i \in 1..Len(s) :
                      s[i] = " " /\ \A j \in 1..(i - 1) : s[j] # " "
         IN <<SubSeq(s, 1, k - 1)>> \o split(SubSeq(s, k + 1, Len(s)))

\* Array.prototype.includes
Member(seq, x) == \E i \in 1..Len(seq) : seq[i] = x

\* a mutant of filterLongWords: no word is dropped
filterLongWordsAll(seq) == seq

\* .filter(word => word.length > 1)
RECURSIVE filterLongWords(_)
filterLongWords(seq) ==
    IF seq = <<>> THEN <<>>
    ELSE (IF Len(Head(seq)) > 1 THEN <<Head(seq)>> ELSE <<>>) \o filterLongWords(Tail(seq))

\* flatten a sequence of sequences (push(...xs) in a loop)
RECURSIVE concatAll(_)
concatAll(seqs) == IF seqs = <<>> THEN <<>> ELSE Head(seqs) \o concatAll(Tail(seqs))

\* a mutant of stripHebrewPrefixes: the article is stripped only from words longer than 3
stripHebrewPrefixesLong(word) ==
    <<word>>
    \o (IF startsWith(word, <<"he">>) /\ Len(word) > 3 THEN <<substring(word, 1)>> ELSE <<>>)
    \o (IF startsWith(word, <<"vav">>) /\ Len(word) > 2 THEN <<substring(word, 1)>> ELSE <<>>)
    \o (IF startsWith(word, <<"vav", "he">>) /\ Len(word) > 3
        THEN <<substring(word, 2)>> ELSE <<>>)

\* a mutant of stripHebrewPrefixes: the pair is stripped only from words of
\* five characters or more
stripHebrewPrefixesPairLong(word) ==
    <<word>>
    \o (IF startsWith(word, <<"he">>) /\ Len(word) > 2 THEN <<substring(word, 1)>> ELSE <<>>)
    \o (IF startsWith(word, <<"vav">>) /\ Len(word) > 2 THEN <<substring(word, 1)>> ELSE <<>>)
    \o (IF startsWith(word, <<"vav", "he">>) /\ Len(word) > 4
        THEN <<substring(word, 2)>> ELSE <<>>)

stripHebrewPrefixes(word) ==
    <<word>>
    \o (IF startsWith(word, <<"he">>) /\ Len(word) > 2 THEN <<substring(word, 1)>> ELSE <<>>)
    \o (IF startsWith(word, <<"vav">>) /\ Len(word) > 2 THEN <<substring(word, 1)>> ELSE <<>>)
    \o (IF startsWith(word, <<"vav", "he">>) /\ Len(word) > 3
        THEN <<substring(word, 2)>> ELSE <<>>)

normalizeHebrewSpelling(t) == <<t>>

\* the variations pushed for one word (matchIcon.ts:86-96)
wordVariations(word) ==
    IF hasHebrew(word)
    THEN <<word>> \o stripHebrewPrefixes(word) \o normalizeHebrewSpelling(word)
    ELSE <<word>>

extractKeywords(t) ==
    LET normalized == normalizeText(t)
        words == filterLongWords(split(normalized))
        allVariations == concatAll([i \in 1..Len(words) |-> wordVariations(words[i])])
    IN <<normalized>> \o words \o allVariations

-----------------------------------------------------------------------------
(* The two tables (types.ts: YotoSynonyms, YotoIconMapping)                *)
(* An object is the sequence of its entries in insertion order, which is   *)
(* the order Object.entries and Object.keys enumerate (no key of the       *)
(* tables is an array index).                                              *)

Entry(keyword, synonymList) == [keyword |-> keyword, synonyms |-> synonymList]
Keys(table) == [i \in 1..Len(table) |-> table[i].keyword]

HasKey(mappings, keyword) == \E i \in 1..Len(mappings) : mappings[i].keyword = keyword

\* mappings[keyword]: the entry's value, undefined (Null) without an entry
Lookup(mappings, keyword) ==
    IF HasKey(mappings, keyword)
    THEN mappings[CHOOSE i \in 1..Len(mappings) : mappings[i].keyword = keyword].iconId
    ELSE Null

\* `x || null` and `!x` on a string: null, undefined and "" are falsy
Falsy(x) == x = Null \/ x = <<>>

\* a mutant of iconOf: an entry missing from the mapping yields the first entry's value
iconOfFirst(mappings, keyword) ==
    IF HasKey(mappings, keyword) \/ mappings = <<>>
    THEN (IF Falsy(Lookup(mappings, keyword)) THEN Null ELSE Lookup(mappings, keyword))
    ELSE mappings[1].iconId

\* iconMappings[keyword] || null
iconOf(mappings, keyword) ==
    IF Falsy(Lookup(mappings, keyword)) THEN Null ELSE Lookup(mappings, keyword)

-----------------------------------------------------------------------------
(* findBestKeywordMatch (matchIcon.ts:103-143)                             *)

Max(a, b) == IF a >= b THEN a ELSE b
Min(a, b) == IF a <= b THEN a ELSE b

\* the (keyword, searchTerm, term) triples in the order the three nested loops visit them
comparisons(searchTerms, synonyms) ==
    concatAll([k \in 1..Len(synonyms) |->
        LET allTerms == <<synonyms[k].keyword>> \o synonyms[k].synonyms
        IN concatAll([s \in 1..Len(searchTerms) |->
               [t \in 1..Len(allTerms) |->
                   [keyword |-> synonyms[k].keyword,
                    searchTerm |-> searchTerms[s],
                    term |-> allTerms[t]]]])])

\* a mutant of exactMatch: the exact-match return is never taken
exactMatchNever(normalizedTerm, searchTerm) == FALSE

\* normalizedTerm === searchTerm (line 116)
exactMatch(normalizedTerm, searchTerm) == normalizedTerm = searchTerm

\* lines 121-128: a term with an extended-script character is also compared
\* through its spelling variations
spellingMatch(term, normalizedTerm, searchTerm) ==
    /\ hasHebrew(term)
    /\ Member(normalizeHebrewSpelling(normalizedTerm), searchTerm)

\* a mutant of containsMatch: only "the term includes the search term" is tested
containsMatchOneWay(normalizedTerm, searchTerm) == includes(normalizedTerm, searchTerm)

\* line 131
containsMatch(normalizedTerm, searchTerm) ==
    includes(normalizedTerm, searchTerm) \/ includes(searchTerm, normalizedTerm)

\* a mutant of matchScore: the shorter of the two lengths
matchScoreShorter(normalizedTerm, searchTerm) == Min(Len(normalizedTerm), Len(searchTerm))

\* line 132
matchScore(normalizedTerm, searchTerm) == Max(Len(normalizedTerm), Len(searchTerm))

RECURSIVE scan(_, _, _)
scan(cmps, bestMatch, bestScore) ==
    IF cmps = <<>> THEN bestMatch
    ELSE LET c == Head(cmps)
             normalizedTerm == normalizeText(c.term)
         IN IF exactMatch(normalizedTerm, c.searchTerm) THEN c.keyword
            ELSE IF spellingMatch(c.term, normalizedTerm, c.searchTerm) THEN c.keyword
            ELSE IF /\ containsMatch(normalizedTerm, c.searchTerm)
                    /\ matchScore(normalizedTerm, c.searchTerm) > bestScore
                 THEN scan(Tail(cmps), c.keyword, matchScore(normalizedTerm, c.searchTerm))
                 ELSE scan(Tail(cmps), bestMatch, bestScore)

findBestKeywordMatch(searchTerms, synonyms) ==
    scan(comparisons(searchTerms, synonyms), Null, 0)

-----------------------------------------------------------------------------
(* matchIcon (matchIcon.ts:145-175), on the tables the two loaders return  *)

\* a mutant of confidenceOf: every match is classified exact
confidenceAlwaysExact(searchTerms, keyword) == "exact"

\* line 167
confidenceOf(searchTerms, keyword) ==
    IF Member(searchTerms, normalizeText(keyword)) THEN "exact" ELSE "partial"

matchIcon(trackTitle, synonyms, iconMappings) ==
    LET searchTerms == extractKeywords(trackTitle)
        keyword == findBestKeywordMatch(searchTerms, synonyms)
    IN IF Falsy(keyword)
       THEN [keyword |-> Null, iconId |-> Null, confidence |-> "none",
             searchTerms |-> searchTerms]
       ELSE [keyword |-> keyword, iconId |-> iconOf(iconMappings, keyword),
             confidence |-> confidenceOf(searchTerms, keyword),
             searchTerms |-> searchTerms]

-----------------------------------------------------------------------------
(* suggestMatches (matchIcon.ts:203-242)                                   *)
(* A relevance (min / max) * 100 is kept as the pair <<min, max>>; two     *)
(* relevances are compared by cross-multiplication.  <<0, 0>> is 0/0, NaN. *)

NaN == <<0, 0>>
Zero == <<0, 1>>
IsNaN(r) == r[2] = 0
Greater(a, b) == ~IsNaN(a) /\ ~IsNaN(b) /\ a[1] * b[2] > b[1] * a[2]
SameValue(a, b) == ~IsNaN(a) /\ ~IsNaN(b) /\ a[1] * b[2] = b[1] * a[2]

\* Math.max(a, b)
mathMax(a, b) == IF IsNaN(a) \/ IsNaN(b) THEN NaN ELSE IF Greater(b, a) THEN b ELSE a

\* a mutant of relevanceOf: the longer length is divided by itself
relevanceOfFull(normalizedTerm, searchTerm) ==
    <<Max(Len(normalizedTerm), Len(searchTerm)), Max(Len(normalizedTerm), Len(searchTerm))>>

\* lines 223-224
relevanceOf(normalizedTerm, searchTerm) ==
    <<Min(Len(normalizedTerm), Len(searchTerm)), Max(Len(normalizedTerm), Len(searchTerm))>>

\* the inner two loops for one keyword (lines 216-228), over its comparisons
RECURSIVE maxRelevanceOver(_, _)
maxRelevanceOver(cmps, maxRelevance) ==
    IF cmps = <<>> THEN maxRelevance
    ELSE LET c == Head(cmps)
             normalizedTerm == normalizeText(c.term)
         IN IF containsMatch(normalizedTerm, c.searchTerm)
            THEN maxRelevanceOver(Tail(cmps),
                     mathMax(maxRelevance, relevanceOf(normalizedTerm, c.searchTerm)))
            ELSE maxRelevanceOver(Tail(cmps), maxRelevance)

\* a mutant of keepSuggestion: keywords of relevance 0 are suggested too
keepSuggestionAlways(maxRelevance) == TRUE

\* maxRelevance > 0 (line 230)
keepSuggestion(maxRelevance) == Greater(maxRelevance, Zero)

\* the suggestions array before it is sorted, in table order
RECURSIVE collectSuggestions(_, _, _)
collectSuggestions(searchTerms, synonyms, iconMappings) ==
    IF synonyms = <<>> THEN <<>>
    ELSE LET maxRelevance ==
                 maxRelevanceOver(comparisons(searchTerms, <<Head(synonyms)>>), Zero)
         IN (IF keepSuggestion(maxRelevance)
             THEN <<[keyword |-> Head(synonyms).keyword,
                     iconId |-> iconOf(iconMappings, Head(synonyms).keyword),
                     relevance |-> maxRelevance]>>
             ELSE <<>>)
            \o collectSuggestions(searchTerms, Tail(synonyms), iconMappings)

\* a mutant of insertSorted: an element goes before the elements it ties with
insertSortedUnstable(sorted, x) ==
    LET n == Cardinality({i \in 1..Len(sorted) : Greater(sorted[i].relevance, x.relevance)})
    IN SubSeq(sorted, 1, n) \o <<x>> \o SubSeq(sorted, n + 1, Len(sorted))

\* Array.prototype.sort((a, b) => b.relevance - a.relevance) is stable: an element
\* goes after every element that does not sort after it
insertSorted(sorted, x) ==
    LET n == Cardinality({i \in 1..Len(sorted) : ~Greater(x.relevance, sorted[i].relevance)})
    IN SubSeq(sorted, 1, n) \o <<x>> \o SubSeq(sorted, n + 1, Len(sorted))

RECURSIVE sortByRelevance(_)
sortByRelevance(seq) ==
    IF seq = <<>> THEN <<>>
    ELSE insertSorted(sortByRelevance(SubSeq(seq, 1, Len(seq) - 1)), seq[Len(seq)])

\* a mutant of slice: one element too many is kept
sliceOneMore(seq, limit) == SubSeq(seq, 1, Min(limit + 1, Len(seq)))

\* Array.prototype.slice(0, limit), limit >= 0
slice(seq, limit) == SubSeq(seq, 1, Min(limit, Len(seq)))

suggestMatches(trackTitle, limit, synonyms, iconMappings) ==
    slice(sortByRelevance(
              collectSuggestions(extractKeywords(trackTitle), synonyms, iconMappings)),
          limit)

-----------------------------------------------------------------------------
(* getAvailableKeywords, getIconMappingStats (matchIcon.ts:177-201)        *)

getAvailableKeywords(synonyms) == Keys(synonyms)

\* a mutant of unmappedOf: the filter keeps the mapped keywords
RECURSIVE unmappedOfInverted(_, _)
unmappedOfInverted(keywords, iconMappings) ==
    IF keywords = <<>> THEN <<>>
    ELSE (IF ~Falsy(Lookup(iconMappings, Head(keywords))) THEN <<Head(keywords)>> ELSE <<>>)
         \o unmappedOfInverted(Tail(keywords), iconMappings)

\* Object.keys(synonyms).filter(keyword => !iconMappings[keyword])
RECURSIVE unmappedOf(_, _)
unmappedOf(keywords, iconMappings) ==
    IF keywords = <<>> THEN <<>>
    ELSE (IF Falsy(Lookup(iconMappings, Head(keywords))) THEN <<Head(keywords)>> ELSE <<>>)
         \o unmappedOf(Tail(keywords), iconMappings)

getIconMappingStats(synonyms, iconMappings) ==
    [totalKeywords |-> Len(synonyms),
     mappedKeywords |-> Len(iconMappings),
     unmappedKeywords |-> unmappedOf(Keys(synonyms), iconMappings)]

-----------------------------------------------------------------------------
(* The loaders and their caches (matchIcon.ts:7-47)                        *)

File(readable, content) == [readable |-> readable, content |-> content]
Unreadable == File(FALSE, <<>>)
NoCache == [loaded |-> FALSE, table |-> <<>>]
Cached(table) == [loaded |-> TRUE, table |-> table]

\* fs.readFileSync + JSON.parse inside try/catch: a failure yields {}
readTable(file) == IF file.readable THEN file.content ELSE <<>>

\* a mutant of loadSynonyms: a failed read falls back to a built-in table
loadSynonymsBuiltIn(cache, file) ==
    IF cache.loaded THEN cache.table
    ELSE IF file.readable THEN file.content
    ELSE << [keyword |-> <<"a", "b">>, synonyms |-> << <<"b", "a">> >>] >>

\* loadSynonyms: the cached table when there is one, else the file (lines 10-26)
loadSynonyms(cache, file) == IF cache.loaded THEN cache.table ELSE readTable(file)

\* loadIconMappings reads the file on every call (lines 28-42)
loadIconMappings(file) == readTable(file)

-----------------------------------------------------------------------------
(* Inputs *)

\* the entries synonym tables are made of: keyword -> synonyms
SynonymPool ==
    { Entry(<<"a", "b">>, << <<"b", "a">> >>),
      Entry(<<"a", "b", "a">>, << <<"a", "b">> >>),
      Entry(<<"gimel", "gimel">>, << <<"gimel", "he">> >>),
      Entry(<<"A", " ", "b">>, << <<"b", "!">> >>) }

\* the synonym tables: up to n entries of the pool, in any order, no keyword twice
TablesUpTo(n) ==
    {t \in UNION {[1..k -> SynonymPool] : k \in 0..n} :
        \A i, j \in 1..Len(t) : i # j => t[i].keyword # t[j].keyword}

Mapping(keyword, iconId) == [keyword |-> keyword, iconId |-> iconId]

\* an icon mapping file: two mapped keywords, one keyword mapped to "", one key
\* that is no keyword of any synonym table; "aba" is unmapped
IconMappingsContent ==
    << Mapping(<<"a", "b">>, <<"yoto:#1">>),
       Mapping(<<"gimel", "gimel">>, <<"yoto:#2">>),
       Mapping(<<"A", " ", "b">>, <<>>),
       Mapping(<<"b", "b">>, <<"yoto:#3">>) >>

NoReturn == [none |-> TRUE]

NormIdle == /\ text = <<>> /\ prev = <<>> /\ calls = 0 /\ terms = <<>>
CallIdle == /\ op = "none" /\ limitArg = 0 /\ ret = NoReturn
BatchIdle ==
    /\ pc = "idle" /\ playlist = <<>> /\ idx = 0 /\ pending = NoReturn
    /\ batchMappings = <<>> /\ availableKeywords = <<>> /\ matches = <<>>
    /\ stats = [total |-> 0, exact |-> 0, partial |-> 0, ai |-> 0, none |-> 0]
    /\ aiReply = NoReturn
ApplyIdle ==
    apply = [pc |-> "idle", dryRun |-> FALSE, updates |-> <<>>, card |-> <<>>,
             cardData |-> <<>>, requests |-> <<>>, result |-> NoReturn]
PlanIdle ==
    plan = [pc |-> "idle", options |-> [startFrom |-> 0, batchSize |-> 0],
            iconIds |-> <<>>, file |-> <<>>, loaded |-> <<>>, existingMappings |-> <<>>,
            startIndex |-> 0, batchSize |-> 0, i |-> 0, k |-> 0,
            processedCount |-> 0, successCount |-> 0, results |-> <<>>, replies |-> <<>>,
            saves |-> 0]
StoreIdle ==
    /\ synonymsFile = Unreadable /\ iconMappingsFile = Unreadable
    /\ synonymsCache = NoCache /\ iconMappingsCache = NoCache
NetIdle == net = [inFlight |-> 0, delayed |-> FALSE]
LangIdle ==
    lang = [language |-> "english", synonymsFile |-> Unreadable,
            iconMappingsFile |-> Unreadable]

\* fetch(...) or openai...create(...) is called: one more request is awaited
issue(n) == [n EXCEPT !.inFlight = @ + 1]

\* a mutant of complete: the call is not awaited, the function goes on while
\* its request is still in flight
completeUnawaited(n) == [n EXCEPT !.delayed = FALSE]

\* the awaited call settles (it returns or throws) and the function resumes
complete(n) == [n EXCEPT !.inFlight = @ - 1, !.delayed = FALSE]

\* await sleep(ms) is over (matchIcon.ts:377-379, 453)
slept(n) == [n EXCEPT !.delayed = TRUE]

-----------------------------------------------------------------------------
(* Spec: a process, its two files, and its first call of an exported       *)
(* function of matchIcon.ts, on one title.  (Calls that find the caches    *)
(* filled are those of SpecBatch.)                                         *)

Init ==
    /\ title \in StringsUpTo(TitleAlphabet, MaxTitleLen)
    /\ synonymsFile \in {File(TRUE, t) : t \in TablesUpTo(MaxKeywords)} \cup {Unreadable}
    /\ iconMappingsFile = File(TRUE, IconMappingsContent)
    /\ synonymsCache = NoCache
    /\ iconMappingsCache = NoCache
    /\ NormIdle /\ CallIdle /\ BatchIdle /\ NetIdle /\ LangIdle /\ ApplyIdle /\ PlanIdle

\* both loaders run first in each of the three functions and fill the caches
Load ==
    /\ synonymsCache' = Cached(loadSynonyms(synonymsCache, synonymsFile))
    /\ iconMappingsCache' = Cached(loadIconMappings(iconMappingsFile))
    /\ UNCHANGED <<synonymsFile, iconMappingsFile>>

MatchIcon ==
    /\ op = "none"
    /\ Load
    /\ op' = "matchIcon"
    /\ limitArg' = 0
    /\ ret' = matchIcon(title, synonymsCache'.table, iconMappingsCache'.table)
    /\ UNCHANGED <<title, normVars, batchVars, modeVars, net>>

SuggestMatches ==
    \E limit \in 0..MaxLimit :
        /\ op = "none"
        /\ Load
        /\ op' = "suggestMatches"
        /\ limitArg' = limit
        /\ ret' = suggestMatches(title, limit, synonymsCache'.table, iconMappingsCache'.table)
        /\ UNCHANGED <<title, normVars, batchVars, modeVars, net>>

GetIconMappingStats ==
    /\ op = "none"
    /\ Load
    /\ op' = "getIconMappingStats"
    /\ limitArg' = 0
    /\ ret' = getIconMappingStats(synonymsCache'.table, iconMappingsCache'.table)
    /\ UNCHANGED <<title, normVars, batchVars, modeVars, net>>

Next == MatchIcon \/ SuggestMatches \/ GetIconMappingStats

Spec == Init /\ [][Next]_vars

-----------------------------------------------------------------------------
(* SpecNorm: normalizeText and extractKeywords applied to one string       *)

InitNorm ==
    /\ title \in StringsUpTo(NormAlphabet, MaxNormLen)
    /\ text = title
    /\ prev = <<>> /\ calls = 0 /\ terms = <<>>
    /\ StoreIdle /\ CallIdle /\ BatchIdle /\ NetIdle /\ LangIdle /\ ApplyIdle /\ PlanIdle

\* text = normalizeText(text), at most twice
NormalizeText ==
    /\ calls < 2
    /\ prev' = text
    /\ text' = normalizeText(text)
    /\ calls' = calls + 1
    /\ UNCHANGED <<title, terms, storeVars, callVars, batchVars, modeVars, net>>

\* terms = extractKeywords(title); the result is never empty, so terms = <<>>
\* marks "not called yet"
ExtractKeywords ==
    /\ calls = 0
    /\ terms = <<>>
    /\ terms' = extractKeywords(title)
    /\ UNCHANGED <<title, text, prev, calls, storeVars, callVars, batchVars, modeVars, net>>

NextNorm == NormalizeText \/ ExtractKeywords

SpecNorm == InitNorm /\ [][NextNorm]_vars

-----------------------------------------------------------------------------
(* aiMatchKeyword (matchIcon.ts:244-292)                                   *)
(* The collaborator's reply is [ok, content]: ok = FALSE is a call that    *)
(* throws, content = Null a reply without message content.                 *)

Reply(ok, content) == [ok |-> ok, content |-> content]

\* a mutant of aiMatchKeyword: the reply is not checked against the keyword list
aiMatchKeywordUnchecked(reply, keywords) ==
    IF ~reply.ok \/ reply.content = Null THEN Null
    ELSE LET res == toLowerCase(trim(reply.content))
         IN IF Falsy(res) \/ res = <<"n", "o", "n", "e">> THEN Null ELSE res

\* what an await of aiMatchKeyword would deliver if the function let an
\* exception escape: analyzePlaylist has no try around the call (part_002:56)
Raise == <<"raise">>

\* a mutant of aiMatchKeyword: no catch around the request
aiMatchKeywordNoCatch(reply, keywords) ==
    IF ~reply.ok THEN Raise
    ELSE IF reply.content = Null THEN Null
    ELSE LET res == toLowerCase(trim(reply.content))
         IN IF Falsy(res) \/ res = <<"n", "o", "n", "e">> THEN Null
            ELSE IF Member(keywords, res) THEN res
            ELSE Null

aiMatchKeyword(reply, keywords) ==
    IF ~reply.ok \/ reply.content = Null THEN Null
    ELSE LET res == toLowerCase(trim(reply.content))
         IN IF Falsy(res) \/ res = <<"n", "o", "n", "e">> THEN Null
            ELSE IF Member(keywords, res) THEN res
            ELSE Null

-----------------------------------------------------------------------------
(* SpecBatch: analyzePlaylist and displayStats (part_002:17-120)           *)

\* runApplyMode passes useAI = true (part_002:153)
UseAI == TRUE

BatchTitles ==
    { <<"a", "b">>, <<"b", "a">>, <<"gimel", "gimel">>, <<"he", "gimel", "gimel">> }

BatchTables ==
    { << Entry(<<"a", "b">>, << <<"b", "a">> >>), Entry(<<"a", "b", "a">>, << <<"a", "b">> >>) >>,
      << Entry(<<"gimel", "gimel">>, << <<"gimel", "he">> >>) >>,
      <<>> }

\* replies of the semantic-fallback collaborator
AiReplies ==
    { Reply(FALSE, Null), Reply(TRUE, Null), Reply(TRUE, <<>>),
      Reply(TRUE, <<"n", "o", "n", "e">>),
      Reply(TRUE, <<" ", "A", "b">>),
      Reply(TRUE, <<"a", "b", "a">>),
      Reply(TRUE, <<"gimel", "gimel">>),
      Reply(TRUE, <<"b", "b">>) }

InitBatch ==
    /\ title = <<>>
    /\ synonymsFile \in {File(TRUE, t) : t \in BatchTables} \cup {Unreadable}
    /\ iconMappingsFile \in {File(TRUE, IconMappingsContent), Unreadable}
    /\ synonymsCache = NoCache
    /\ iconMappingsCache = NoCache
    /\ NormIdle /\ CallIdle /\ BatchIdle /\ NetIdle /\ LangIdle /\ ApplyIdle /\ PlanIdle

\* analyzePlaylist is called and awaits getPlaylist (lines 32-33)
FetchPlaylist ==
    /\ pc = "idle"
    /\ pc' = "fetching"
    /\ net' = issue(net)
    /\ UNCHANGED <<title, normVars, storeVars, callVars, playlist, idx, pending,
                   batchMappings, availableKeywords, matches, stats, aiReply, modeVars>>

\* getPlaylist throws: analyzePlaylist ends with that exception
PlaylistFails ==
    /\ pc = "fetching"
    /\ pc' = "failed"
    /\ net' = complete(net)
    /\ UNCHANGED <<title, normVars, storeVars, callVars, playlist, idx, pending,
                   batchMappings, availableKeywords, matches, stats, aiReply, modeVars>>

\* getPlaylist returns; lines 37-40 run
PlaylistFetched ==
    \E tracks \in StringsUpTo(BatchTitles, MaxTracks) :
        /\ pc = "fetching"
        /\ playlist' = tracks
        /\ matches' = <<>>
        /\ stats' = [total |-> 0, exact |-> 0, partial |-> 0, ai |-> 0, none |-> 0]
        /\ iconMappingsCache' = Cached(loadIconMappings(iconMappingsFile))
        /\ batchMappings' = loadIconMappings(iconMappingsFile)
        /\ synonymsCache' = Cached(loadSynonyms(synonymsCache, synonymsFile))
        /\ availableKeywords' = getAvailableKeywords(loadSynonyms(synonymsCache, synonymsFile))
        /\ pc' = "loop"
        /\ net' = complete(net)
        /\ UNCHANGED <<title, normVars, synonymsFile, iconMappingsFile, callVars, idx, pending,
                       aiReply, modeVars>>

\* a mutant of countResult: only the tier is counted, not the total
countResultNoTotal(st, confidence) == [st EXCEPT ![confidence] = @ + 1]

\* stats.total++; stats[result.confidence]++ (lines 72-73)
countResult(st, confidence) == [st EXCEPT !.total = @ + 1, ![confidence] = @ + 1]

\* lines 71-73 for the final result of the current track: it is pushed and counted
Record(res) ==
    /\ matches' = Append(matches, res)
    /\ stats' = countResult(stats, res.confidence)
    /\ idx' = idx + 1
    /\ pending' = NoReturn
    /\ pc' = "loop"

\* one iteration up to the await of aiMatchKeyword, or to its end (lines 43-54 and
\* 71-103); matchIcon runs both loaders, and so does the suggestMatches call that
\* the display makes for a result without keyword
AnalyzeTrack ==
    /\ pc = "loop"
    /\ idx < Len(playlist)
    /\ LET track == playlist[idx + 1]
           match == matchIcon(track, loadSynonyms(synonymsCache, synonymsFile),
                              loadIconMappings(iconMappingsFile))
           res == [track |-> track, keyword |-> match.keyword, iconId |-> match.iconId,
                   confidence |-> match.confidence, searchTerms |-> match.searchTerms]
       IN IF match.confidence = "none" /\ UseAI /\ Len(availableKeywords) > 0
          THEN /\ pending' = res
               /\ pc' = "ai"
               /\ net' = issue(net)
               /\ UNCHANGED <<matches, stats, idx>>
          ELSE Record(res) /\ UNCHANGED net
    /\ synonymsCache' = Cached(loadSynonyms(synonymsCache, synonymsFile))
    /\ iconMappingsCache' = Cached(loadIconMappings(iconMappingsFile))
    /\ UNCHANGED <<title, normVars, synonymsFile, iconMappingsFile, callVars, playlist,
                   batchMappings, availableKeywords, aiReply, modeVars>>

\* aiMatchKeyword returns; the rest of the iteration runs (lines 56-103): a result
\* left without keyword is displayed with suggestMatches, which runs both loaders
AiMatchReturns ==
    \E reply \in AiReplies :
        /\ pc = "ai"
        /\ aiReply' = reply
        /\ net' = complete(net)
        /\ LET aiKeyword == aiMatchKeyword(reply, availableKeywords)
           IN IF aiKeyword = Raise
              THEN /\ pc' = "failed"
                   /\ UNCHANGED <<matches, stats, idx, pending, synonymsCache,
                                  iconMappingsCache>>
              ELSE IF ~Falsy(aiKeyword) /\ ~Falsy(Lookup(batchMappings, aiKeyword))
              THEN /\ Record([track |-> pending.track, keyword |-> aiKeyword,
                              iconId |-> Lookup(batchMappings, aiKeyword),
                              confidence |-> "ai", searchTerms |-> <<pending.track>>])
                   /\ UNCHANGED <<synonymsCache, iconMappingsCache>>
              ELSE /\ Record(pending)
                   /\ synonymsCache' = Cached(loadSynonyms(synonymsCache, synonymsFile))
                   /\ iconMappingsCache' = Cached(loadIconMappings(iconMappingsFile))
        /\ UNCHANGED <<title, normVars, synonymsFile, iconMappingsFile, callVars, playlist,
                       batchMappings, availableKeywords, modeVars>>

\* the loop is over: return { matches, stats } (line 106)
ReturnMatches ==
    /\ pc = "loop"
    /\ idx = Len(playlist)
    /\ pc' = "done"
    /\ UNCHANGED <<title, normVars, storeVars, callVars, playlist, idx, pending,
                   batchMappings, availableKeywords, matches, stats, aiReply, modeVars, net>>

\* const assignable = stats.exact + stats.partial + stats.ai (part_002:118)
assignable(st) == st.exact + st.partial + st.ai

\* runApplyMode prints the statistics of the returned batch (part_002:155)
DisplayStats ==
    /\ pc = "done"
    /\ pc' = "reported"
    /\ UNCHANGED <<title, normVars, storeVars, callVars, playlist, idx, pending,
                   batchMappings, availableKeywords, matches, stats, aiReply, modeVars, net>>

NextBatch ==
    \/ FetchPlaylist
    \/ PlaylistFails
    \/ PlaylistFetched
    \/ AnalyzeTrack
    \/ AiMatchReturns
    \/ ReturnMatches
    \/ DisplayStats

SpecBatch == InitBatch /\ [][NextBatch]_vars

-----------------------------------------------------------------------------
(* Properties of the matcher, checked under Spec                           *)

\* the tables the last call worked on
usedSynonyms == synonymsCache.table
usedMappings == iconMappingsCache.table

CandidateTerms(entry) == <<entry.keyword>> \o entry.synonyms
SeqSet(seq) == {seq[i] : i \in 1..Len(seq)}
NormalizedCandidates(entry) == {normalizeText(t) : t \in SeqSet(CandidateTerms(entry))}
SearchTermSet == SeqSet(extractKeywords(title))

\* entry has a candidate term whose normalized form equals a search term of the title
ExactOwner(entry) == NormalizedCandidates(entry) \cap SearchTermSet # {}

\* the greatest containment score of an entry (0 without any containment)
FuzzyScore(entry) ==
    LET scores == {Max(Len(n), Len(s)) : <<n, s>> \in
                      {p \in NormalizedCandidates(entry) \X SearchTermSet :
                          includes(p[1], p[2]) \/ includes(p[2], p[1])}}
    IN IF scores = {} THEN 0 ELSE CHOOSE m \in scores : \A x \in scores : x <= m

PositionOf(keyword) == CHOOSE i \in 1..Len(usedSynonyms) : usedSynonyms[i].keyword = keyword

C2_EmptyTitleNone ==
    (op = "matchIcon" /\ normalizeText(title) = <<>>)
        => ret.keyword = Null /\ ret.iconId = Null /\ ret.confidence = "none"

C4_Confidence ==
    op = "matchIcon" =>
        /\ (ret.confidence = "none") <=> (ret.keyword = Null)
        /\ ret.keyword # Null =>
              IF normalizeText(ret.keyword) \in SeqSet(ret.searchTerms)
              THEN ret.confidence = "exact"
              ELSE ret.confidence = "partial"

\* C4 witness: a title matched exactly, but through a synonym that differs from the keyword
C4_Witness ==
    /\ op = "matchIcon"
    /\ ret.keyword # Null
    /\ ExactOwner(usedSynonyms[PositionOf(ret.keyword)])
    /\ ret.confidence = "partial"

\* no search term equals, contains or is contained in any normalized candidate term
NoOverlap ==
    \A e \in SeqSet(usedSynonyms) : \A n \in NormalizedCandidates(e) : \A s \in SearchTermSet :
        ~(n = s \/ includes(n, s) \/ includes(s, n))

\* C5: without any equality or containment between a search term and a candidate
\* term, matchIcon returns null / none and suggestMatches returns nothing
C5_NoMatch ==
    NoOverlap =>
        /\ op = "matchIcon" => ret.keyword = Null /\ ret.confidence = "none"
        /\ op = "suggestMatches" => ret = <<>>

C5_Witness ==
    /\ op = "suggestMatches" /\ limitArg > 0
    /\ usedSynonyms # <<>> /\ title # <<>>
    /\ NoOverlap

TokensOf(t) == SeqSet(split(normalizeText(t)))

\* the case of C7 for the entry e: a token "he" + K, K the normalized keyword of
\* e, of length >= 2, and no other keyword owns a search term exactly
ArticleCase(e) ==
    /\ Len(normalizeText(e.keyword)) >= 2
    /\ (<<"he">> \o normalizeText(e.keyword)) \in TokensOf(title)
    /\ \A o \in SeqSet(usedSynonyms) : o.keyword # e.keyword => ~ExactOwner(o)

\* C7: in that case the search terms include K and matchIcon returns the keyword
\* with confidence exact
C7_ArticleStripped ==
    op = "matchIcon" =>
        \A e \in SeqSet(usedSynonyms) :
            ArticleCase(e) => /\ normalizeText(e.keyword) \in SeqSet(ret.searchTerms)
                              /\ ret.keyword = e.keyword
                              /\ ret.confidence = "exact"

\* C7 witness: the case holds for a keyword that is not the first of its table
C7_Witness ==
    /\ op = "matchIcon"
    /\ \E e \in SeqSet(usedSynonyms) : ArticleCase(e) /\ PositionOf(e.keyword) > 1

\* C8: suggestMatches returns at most limit entries, no keyword twice, in
\* non-increasing relevance, equal relevances in table order
C8_SuggestionOrder ==
    op = "suggestMatches" =>
        /\ Len(ret) <= limitArg
        /\ \A i, j \in 1..Len(ret) :
              i < j => /\ ret[i].keyword # ret[j].keyword
                       /\ ~Greater(ret[j].relevance, ret[i].relevance)
                       /\ SameValue(ret[i].relevance, ret[j].relevance)
                              => PositionOf(ret[i].keyword) < PositionOf(ret[j].keyword)

\* C8 witness: two suggestions of equal relevance are returned
C8_Witness ==
    /\ op = "suggestMatches"
    /\ Len(ret) >= 2
    /\ SameValue(ret[1].relevance, ret[2].relevance)

-----------------------------------------------------------------------------
(* Properties of the normalizer, checked under SpecNorm                    *)

\* C9: normalizeText(normalizeText(s)) = normalizeText(s)
C9_Idempotent == calls = 2 => text = prev

\* C9 witness: both applications done, on a string the first application changed
C9_Witness == calls = 2 /\ text # title /\ text # <<>>

-----------------------------------------------------------------------------
(* Properties of the batch statistics, checked under SpecBatch             *)

Tiers == {"exact", "partial", "ai", "none"}
CountOf(tier) == Cardinality({i \in 1..Len(matches) : matches[i].confidence = tier})

\* C10: after any prefix of the tracks, stats.total is the number of tracks
\* processed and the sum of the four tiers, each tier counts the tracks whose final
\* result is of that tier, and assignable = exact + partial + ai = total - none
C10_BatchStatistics ==
    pc \in {"loop", "ai", "done", "reported"} =>
        /\ stats.total = idx
        /\ stats.total = Len(matches)
        /\ stats.total = stats.exact + stats.partial + stats.ai + stats.none
        /\ \A tier \in Tiers : stats[tier] = CountOf(tier)
        /\ assignable(stats) = stats.total - stats.none

\* C10 witness: a reported batch with a track in each of three tiers
C10_Witness ==
    /\ pc = "reported"
    /\ stats.exact > 0 /\ stats.ai > 0 /\ stats.none > 0

-----------------------------------------------------------------------------
(* Semantic fallback (SpecBatch)                                           *)

\* the results of the batch, as a set
MatchSet == { matches[i] : i \in 1..Len(matches) }

FailedReply(r) ==
    /\ r # NoReturn
    /\ \/ ~r.ok
       \/ r.content = Null
       \/ trim(r.content) = <<>>

\* C12: a failure of the collaborator for one track never aborts the batch:
\* the await of aiMatchKeyword always brings analyzePlaylist back into its
\* loop with that track recorded, after a failure the track's result is
\* keyword null, iconId null, 'none', and a batch that has returned holds a
\* result for every track of the playlist.
C12_FailureContained ==
    /\ [](pc = "done" => Len(matches) = Len(playlist))
    /\ [][pc = "ai" =>
              /\ pc' = "loop"
              /\ idx' = idx + 1
              /\ Len(matches') = idx'
              /\ matches'[idx'].track = playlist[idx']
              /\ FailedReply(aiReply') =>
                    /\ matches'[idx'].keyword = Null
                    /\ matches'[idx'].iconId = Null
                    /\ matches'[idx'].confidence = "none"]_vars

\* the request for the first track threw, and the batch went on to match a
\* later track and to return
C12_Witness ==
    /\ pc = "done"
    /\ Len(matches) >= 2
    /\ Len(availableKeywords) > 0
    /\ matches[1].confidence = "none"
    /\ \A i \in 2..Len(matches) : matches[i].confidence \in {"exact", "partial"}
    /\ aiReply = Reply(FALSE, Null)

-----------------------------------------------------------------------------
(* SpecStore: a process that calls matchIcon and getIconMappingStats any   *)
(* number of times, with either file readable or not                       *)

StoreTitles == BatchTitles \cup { <<"a", "b", "a">>, <<"A", " ", "b">> }

InitStore ==
    /\ title = <<>>
    /\ synonymsFile \in {File(TRUE, t) : t \in TablesUpTo(MaxKeywords)} \cup {Unreadable}
    /\ iconMappingsFile \in {File(TRUE, IconMappingsContent), Unreadable}
    /\ synonymsCache = NoCache
    /\ iconMappingsCache = NoCache
    /\ NormIdle /\ CallIdle /\ BatchIdle /\ NetIdle /\ LangIdle /\ ApplyIdle /\ PlanIdle

\* matchIcon(trackTitle): the first call fills the synonym cache, later calls use it
CallMatchIcon ==
    \E trackTitle \in StoreTitles :
        /\ title' = trackTitle
        /\ op' = "matchIcon"
        /\ limitArg' = 0
        /\ ret' = matchIcon(trackTitle, loadSynonyms(synonymsCache, synonymsFile),
                            loadIconMappings(iconMappingsFile))
        /\ synonymsCache' = Cached(loadSynonyms(synonymsCache, synonymsFile))
        /\ iconMappingsCache' = Cached(loadIconMappings(iconMappingsFile))
        /\ UNCHANGED <<synonymsFile, iconMappingsFile, normVars, batchVars, modeVars, net>>

\* getIconMappingStats()
CallGetIconMappingStats ==
    /\ op' = "getIconMappingStats"
    /\ limitArg' = 0
    /\ ret' = getIconMappingStats(loadSynonyms(synonymsCache, synonymsFile),
                                  loadIconMappings(iconMappingsFile))
    /\ synonymsCache' = Cached(loadSynonyms(synonymsCache, synonymsFile))
    /\ iconMappingsCache' = Cached(loadIconMappings(iconMappingsFile))
    /\ UNCHANGED <<title, synonymsFile, iconMappingsFile, normVars, batchVars, modeVars, net>>

NextStore == CallMatchIcon \/ CallGetIconMappingStats

SpecStore == InitStore /\ [][NextStore]_vars

C14_StatsIdentity ==
    op = "getIconMappingStats" =>
        /\ ret.totalKeywords = Len(usedSynonyms)
        /\ ret.mappedKeywords =
              Cardinality({ i \in 1..Len(usedMappings) : ~Falsy(usedMappings[i].iconId) })
        /\ ret.unmappedKeywords =
              SelectSeq(Keys(usedSynonyms), LAMBDA k : ~HasKey(usedMappings, k))
        /\ ret.totalKeywords = ret.mappedKeywords + Len(ret.unmappedKeywords)

-----------------------------------------------------------------------------
(* updateCardWithIcons and updateCard (part_001:74-176), with the tracks   *)
(* getPlaylist derives from a card (part_001:35-67)                        *)

\* a chapter of a card: display.icon16x16 is icon; hasTracks tells whether
\* chapter.tracks is an array
Chapter(key, tracks, hasTracks) ==
    [key |-> key, icon |-> Null, hasTracks |-> hasTracks, tracks |-> tracks]
CardTrack(key) == [key |-> key, icon |-> Null]

ChapterPool ==
    { Chapter(<<"c1">>, << CardTrack(<<"t1">>) >>, TRUE),
      Chapter(<<"c2">>, <<>>, FALSE),
      Chapter(<<"c3">>, << CardTrack(<<"t2">>), CardTrack(<<"t3">>) >>, TRUE) }

\* data.card.content.chapters of the cards on the server
Cards ==
    {c \in UNION {[1..k -> ChapterPool] : k \in 0..MaxChapters} :
        \A i, j \in 1..Len(c) : i # j => c[i].key # c[j].key}

\* the YotoTrack objects of getPlaylist: a track of a chapter carries the
\* chapter's key; a chapter without a tracks array becomes a track whose
\* chapterKey and trackKey are undefined (lines 38-53 and 59-65)
tracksOfChapter(chapter) ==
    IF chapter.hasTracks
    THEN [t \in 1..Len(chapter.tracks) |->
             [id |-> chapter.tracks[t].key, chapterKey |-> chapter.key,
              trackKey |-> chapter.tracks[t].key]]
    ELSE << [id |-> chapter.key, chapterKey |-> Null, trackKey |-> Null] >>

playlistTracks(chapters) == concatAll([c \in 1..Len(chapters) |-> tracksOfChapter(chapters[c])])

\* icon identifiers as the mapping file holds them, and a plain URL
ApplyIconIds == { <<"yoto:#", "1">>, <<"yoto:#", "2">>, <<"u">> }

\* iconId.startsWith('yoto:#') ? base + iconId.replace('yoto:#', '') : iconId
mediaUrl(iconId) ==
    IF startsWith(iconId, <<"yoto:#">>)
    THEN <<"https://media-secure-v2.api.yotoplay.com/icons/">> \o substring(iconId, 1)
    ELSE iconId

\* the body of the loop over updates for one update (lines 129-153)
applyUpdate(chapters, update) ==
    LET hits == {c \in 1..Len(chapters) : chapters[c].key = update.track.chapterKey}
    IN IF hits = {} THEN chapters
       ELSE LET c == CHOOSE x \in hits : \A y \in hits : x <= y
                chapter == chapters[c]
                trackHits == {t \in 1..Len(chapter.tracks) :
                                 \/ chapter.tracks[t].key = update.track.trackKey
                                 \/ chapter.tracks[t].key = update.track.id}
                newTracks ==
                    IF chapter.hasTracks /\ trackHits # {}
                    THEN LET t == CHOOSE x \in trackHits : \A y \in trackHits : x <= y
                         IN [chapter.tracks EXCEPT ![t].icon = mediaUrl(update.iconId)]
                    ELSE chapter.tracks
            IN [chapters EXCEPT ![c] = [chapter EXCEPT !.icon = mediaUrl(update.iconId),
                                                       !.tracks = newTracks]]

RECURSIVE applyUpdates(_, _)
applyUpdates(chapters, updates) ==
    IF updates = <<>> THEN chapters
    ELSE applyUpdates(applyUpdate(chapters, Head(updates)), Tail(updates))

\* the update lists runApplyMode can build for a playlist: some of its tracks,
\* in playlist order, each with an icon (part_002:169-181)
RECURSIVE UpdateLists(_)
UpdateLists(tracks) ==
    IF tracks = <<>> THEN { <<>> }
    ELSE LET rest == UpdateLists(Tail(tracks))
         IN rest \cup { << [track |-> Head(tracks), iconId |-> i] >> \o r :
                           i \in ApplyIconIds, r \in rest }

\* a mutant of startUpdate: the dry-run test is missing
startUpdateLive(a) == [a EXCEPT !.pc = "fetching", !.requests = Append(@, "GET")]

\* updateCardWithIcons up to its first await (lines 107-121)
startUpdate(a) ==
    IF a.dryRun
    THEN [a EXCEPT !.pc = "returned",
                   !.result = [success |-> Len(a.updates), failed |-> 0]]
    ELSE [a EXCEPT !.pc = "fetching", !.requests = Append(@, "GET")]

-----------------------------------------------------------------------------
(* SpecApply: one call of updateCardWithIcons                              *)

InitApply ==
    /\ title = <<>>
    /\ StoreIdle /\ NormIdle /\ CallIdle /\ BatchIdle /\ NetIdle /\ LangIdle /\ PlanIdle
    /\ \E card \in Cards, dryRun \in BOOLEAN :
         \E updates \in UpdateLists(playlistTracks(card)) :
            apply = [pc |-> "idle", dryRun |-> dryRun, updates |-> updates, card |-> card,
                     cardData |-> <<>>, requests |-> <<>>, result |-> NoReturn]

applyUnchanged == UNCHANGED <<title, normVars, storeVars, callVars, batchVars, plan, lang>>

UpdateCardWithIcons ==
    /\ apply.pc = "idle"
    /\ apply' = startUpdate(apply)
    /\ net' = IF startUpdate(apply).pc = "fetching" THEN issue(net) ELSE net
    /\ applyUnchanged

\* the GET of the card answers: the updates are applied to the fetched card and
\* updateCard sends it (lines 116-156 and 74-83); a failure is caught (171-174)
CardFetched ==
    \E outcome \in {"ok", "not ok", "throws"} :
        /\ apply.pc = "fetching"
        /\ apply' = IF outcome = "ok"
                    THEN [apply EXCEPT !.pc = "posting",
                                       !.cardData = applyUpdates(apply.card, apply.updates),
                                       !.requests = Append(@, "POST")]
                    ELSE [apply EXCEPT !.pc = "returned",
                                       !.result = [success |-> 0,
                                                   failed |-> Len(apply.updates)]]
        /\ net' = IF outcome = "ok" THEN issue(complete(net)) ELSE complete(net)
        /\ applyUnchanged

\* the POST answers (lines 85-98 and 159-169); an accepted card replaces the
\* one on the server
CardPosted ==
    \E outcome \in {"ok", "not ok", "throws"} :
        /\ apply.pc = "posting"
        /\ apply' = IF outcome = "ok"
                    THEN [apply EXCEPT !.pc = "returned", !.card = apply.cardData,
                                       !.result = [success |-> Len(apply.updates),
                                                   failed |-> 0]]
                    ELSE [apply EXCEPT !.pc = "returned",
                                       !.result = [success |-> 0,
                                                   failed |-> Len(apply.updates)]]
        /\ net' = complete(net)
        /\ applyUnchanged

NextApply == UpdateCardWithIcons \/ CardFetched \/ CardPosted

SpecApply == InitApply /\ [][NextApply]_vars

\* C15: updateCardWithIcons called with dryRun = true issues no request at
\* all, neither the fetch of the card nor the POST, and returns success =
\* the number of updates and failed = 0.
C15_DryRun ==
    apply.dryRun =>
        /\ apply.requests = <<>>
        /\ apply.pc \in {"idle", "returned"}
        /\ apply.pc = "returned" =>
              apply.result = [success |-> Len(apply.updates), failed |-> 0]

\* a dry run over two updates has returned
C15_Witness ==
    /\ apply.dryRun
    /\ apply.pc = "returned"
    /\ Len(apply.updates) = 2
    /\ apply.result.success = 2

-----------------------------------------------------------------------------
(* Plan mode (plan.ts: processIconWithVision, saveMappings, runPlanMode)   *)

\* CONFIG.DEFAULT_BATCH_SIZE
DEFAULT_BATCH_SIZE == 10

\* `x || d` on a number option: undefined and 0 give d (an option that is not
\* passed is modelled as 0)
orDefault(x, d) == IF x = 0 THEN d ELSE x

\* processIconWithVision: the VisionResult for one reply; a call that throws,
\* a reply without content and a blank reply all end in the catch (lines 311-357)
processIconWithVision(iconId, reply) ==
    IF ~reply.ok \/ reply.content = Null
    THEN [iconId |-> iconId, keyword |-> <<>>, success |-> FALSE]
    ELSE LET keyword == toLowerCase(trim(reply.content))
         IN IF keyword = <<>>
            THEN [iconId |-> iconId, keyword |-> <<>>, success |-> FALSE]
            ELSE [iconId |-> iconId, keyword |-> keyword, success |-> TRUE]

\* a mutant of setMapping: a keyword that is already mapped keeps its value
setMappingKeepFirst(mappings, keyword, value) ==
    IF HasKey(mappings, keyword) THEN mappings
    ELSE Append(mappings, Mapping(keyword, value))

\* existingMappings[keyword] = value: an own key keeps its place, a new one is added last
setMapping(mappings, keyword, value) ==
    IF HasKey(mappings, keyword)
    THEN [j \in 1..Len(mappings) |->
             IF mappings[j].keyword = keyword THEN Mapping(keyword, value) ELSE mappings[j]]
    ELSE Append(mappings, Mapping(keyword, value))

\* a mutant of batchEnd: the slice ends one icon early
batchEndShort(i, batchSize, n) == Min(i + batchSize - 1, n)

\* Math.min(i + batchSize, iconIds.length), the end of iconIds.slice (line 423)
batchEnd(i, batchSize, n) == Min(i + batchSize, n)

\* the for statement at batch start i: its test, then the inner loop over the
\* batch, which goes straight to saveMappings when the batch is empty
enterBatch(p, i) ==
    IF i < Len(p.iconIds)
    THEN IF i < batchEnd(i, p.batchSize, Len(p.iconIds))
         THEN [p EXCEPT !.i = i, !.k = i, !.pc = "vision"]
         ELSE [p EXCEPT !.i = i, !.k = i, !.pc = "save"]
    ELSE [p EXCEPT !.i = i, !.pc = "done"]

\* replies of the vision collaborator
VisionReplies ==
    { Reply(FALSE, Null), Reply(TRUE, <<" ">>),
      Reply(TRUE, <<"a", "b">>), Reply(TRUE, <<" ", "A", "b">>), Reply(TRUE, <<"b", "b">>) }

\* the lines of icon_ids.txt
IconIdList(n) == [j \in 1..n |-> <<"i", j>>]

\* the icon-mapping file before the run: missing, or holding one mapping
PlanFiles == { <<>>, << Mapping(<<"a", "b">>, <<"yoto:#", "i", 9>>) >> }

-----------------------------------------------------------------------------
(* SpecPlan: one run of plan mode; every write of the mapping file succeeds *)

InitPlan ==
    /\ title = <<>>
    /\ StoreIdle /\ NormIdle /\ CallIdle /\ BatchIdle /\ NetIdle /\ LangIdle /\ ApplyIdle
    /\ \E n \in 0..MaxIcons, startFrom \in 0..MaxStartFrom, size \in 0..MaxBatchSize,
          file \in PlanFiles :
         plan = [pc |-> "idle", options |-> [startFrom |-> startFrom, batchSize |-> size],
                 iconIds |-> IconIdList(n), file |-> file, loaded |-> <<>>,
                 existingMappings |-> <<>>, startIndex |-> 0, batchSize |-> 0, i |-> 0,
                 k |-> 0, processedCount |-> 0, successCount |-> 0, results |-> <<>>,
                 replies |-> <<>>, saves |-> 0]

planUnchanged == UNCHANGED <<title, normVars, storeVars, callVars, batchVars, apply, lang>>

\* runPlanMode up to the first vision call (lines 400-424)
RunPlanMode ==
    /\ plan.pc = "idle"
    /\ LET startIndex == orDefault(plan.options.startFrom, 0)
           batchSize == orDefault(plan.options.batchSize, DEFAULT_BATCH_SIZE)
       IN plan' = enterBatch([plan EXCEPT !.loaded = plan.file,
                                          !.existingMappings = plan.file,
                                          !.startIndex = startIndex,
                                          !.batchSize = batchSize], startIndex)
    /\ net' = IF plan'.pc = "vision" THEN issue(net) ELSE net
    /\ planUnchanged

\* processIconWithVision returns for iconIds[k]; lines 430-450 run up to the sleep
VisionReturns ==
    \E reply \in VisionReplies :
        /\ plan.pc = "vision"
        /\ LET result == processIconWithVision(plan.iconIds[plan.k + 1], reply)
           IN plan' = [plan EXCEPT
                  !.results = Append(@, result),
                  !.replies = Append(@, reply),
                  !.successCount = IF result.success THEN @ + 1 ELSE @,
                  !.existingMappings =
                      IF result.success
                      THEN setMapping(@, result.keyword, <<"yoto:#">> \o result.iconId)
                      ELSE @,
                  !.processedCount = @ + 1,
                  !.pc = "sleep"]
        /\ net' = complete(net)
        /\ planUnchanged

\* the sleep is over: the next icon of the batch, or saveMappings (lines 453-457)
SleepDone ==
    /\ plan.pc = "sleep"
    /\ plan' = IF plan.k + 1 < batchEnd(plan.i, plan.batchSize, Len(plan.iconIds))
               THEN [plan EXCEPT !.k = @ + 1, !.pc = "vision"]
               ELSE [plan EXCEPT !.pc = "save"]
    /\ net' = IF plan'.pc = "vision" THEN issue(slept(net)) ELSE slept(net)
    /\ planUnchanged

\* saveMappings writes the file; the for statement goes to the next batch
SaveMappings ==
    /\ plan.pc = "save"
    /\ plan' = enterBatch([plan EXCEPT !.file = plan.existingMappings, !.saves = @ + 1],
                          plan.i + plan.batchSize)
    /\ net' = IF plan'.pc = "vision" THEN issue(net) ELSE net
    /\ planUnchanged

NextPlan == RunPlanMode \/ VisionReturns \/ SleepDone \/ SaveMappings

SpecPlan == InitPlan /\ [][NextPlan]_vars

\* the number of icon ids at index >= startFrom
PlanTotal == Max(0, Len(plan.iconIds) - plan.options.startFrom)

\* the value the claim gives keyword after the first m processed icons: that of
\* the last successful one answering keyword, else the pre-existing one
ExpectedValue(keyword, m) ==
    LET js == {j \in 1..m : plan.results[j].success /\ plan.results[j].keyword = keyword}
    IN IF js = {} THEN Lookup(plan.loaded, keyword)
       ELSE <<"yoto:#">> \o plan.results[CHOOSE j \in js : \A x \in js : x <= j].iconId

ExpectedKeys(m) ==
    SeqSet(Keys(plan.loaded))
        \cup {plan.results[j].keyword : j \in {x \in 1..m : plan.results[x].success}}

\* mappings is the pre-existing mapping updated by the first m processed icons
MapEquals(mappings, m) ==
    /\ \A a, b \in 1..Len(mappings) : a # b => mappings[a].keyword # mappings[b].keyword
    /\ SeqSet(Keys(mappings)) = ExpectedKeys(m)
    /\ \A keyword \in ExpectedKeys(m) : Lookup(mappings, keyword) = ExpectedValue(keyword, m)

\* C16: saveMappings is invoked exactly once per batch, after the batch's
\* last icon has been processed, and the mapping it writes equals the
\* pre-existing mappings updated with keyword -> 'yoto:#' + iconId for every
\* icon successfully processed so far, a later icon overwriting an earlier
\* one that answered the same keyword.
C16_SavePerBatch ==
    plan.pc # "idle" =>
        /\ plan.pc = "vision" =>
              /\ plan.saves * plan.batchSize <= plan.processedCount
              /\ plan.processedCount < (plan.saves + 1) * plan.batchSize
              /\ plan.processedCount < PlanTotal
        /\ plan.pc = "sleep" =>
              /\ plan.saves * plan.batchSize < plan.processedCount
              /\ plan.processedCount <= (plan.saves + 1) * plan.batchSize
        /\ plan.pc = "save" =>
              plan.processedCount = Min((plan.saves + 1) * plan.batchSize, PlanTotal)
        /\ plan.pc = "done" =>
              /\ plan.saves * plan.batchSize >= PlanTotal
              /\ plan.saves > 0 => (plan.saves - 1) * plan.batchSize < PlanTotal
        /\ IF plan.saves = 0
           THEN plan.file = plan.loaded
           ELSE MapEquals(plan.file, Min(plan.saves * plan.batchSize, PlanTotal))

\* two batches have been saved; the second overwrote a mapping of the first,
\* which had overwritten the pre-existing one
C16_Witness ==
    /\ plan.pc = "done"
    /\ plan.saves = 2
    /\ plan.loaded # <<>>
    /\ Len(plan.results) >= 2
    /\ plan.results[1].success /\ plan.results[Len(plan.results)].success
    /\ plan.results[1].keyword = <<"a", "b">>
    /\ plan.results[Len(plan.results)].keyword = <<"a", "b">>
    /\ Lookup(plan.file, <<"a", "b">>) = <<"yoto:#">> \o plan.results[Len(plan.results)].iconId

-----------------------------------------------------------------------------
(* SpecMatch: a process, its two files, and one call of matchIcon          *)

NextMatch == MatchIcon

SpecMatch == Init /\ [][NextMatch]_vars

-----------------------------------------------------------------------------
(* Selection among several keywords (SpecMatch)                            *)

ExactOwners == {i \in 1..Len(usedSynonyms) : ExactOwner(usedSynonyms[i])}

BestFuzzyScore ==
    LET scores == {FuzzyScore(usedSynonyms[i]) : i \in 1..Len(usedSynonyms)} \cup {0}
    IN CHOOSE m \in scores : \A x \in scores : x <= m

\* the keywords that attain the greatest score, when it is positive
TopScorers ==
    LET best == BestFuzzyScore
    IN {i \in 1..Len(usedSynonyms) : best > 0 /\ FuzzyScore(usedSynonyms[i]) = best}

First(positions) == CHOOSE i \in positions : \A j \in positions : i <= j

Reorderings(table) ==
    {p \in [1..Len(table) -> SeqSet(table)] : \A e \in SeqSet(table) : \E i \in 1..Len(table) : p[i] = e}

\* matchIcon returns the same keyword and confidence on every reordering of the table
SameOnEveryOrder ==
    \A p \in Reorderings(usedSynonyms) :
        LET other == matchIcon(title, p, usedMappings)
        IN other.keyword = ret.keyword /\ other.confidence = ret.confidence

\* C19 as stated: the result of matchIcon does not depend on the iteration
\* order of the table; it returns the same keyword and confidence for any two
\* insertion orders of the same entries.
C19_OrderIndependent == op = "matchIcon" => SameOnEveryOrder

\* C19, amended: the result of matchIcon does not depend on the iteration
\* order of the table when at most one keyword has a candidate term equal to
\* a search term and, if none has, at most one keyword attains the greatest
\* score.
C19_OrderIndependentWhenUnambiguous ==
    (/\ op = "matchIcon"
     /\ Cardinality(ExactOwners) <= 1
     /\ ExactOwners = {} => Cardinality(TopScorers) <= 1) => SameOnEveryOrder

\* a table of two keywords, only the second of which owns an exact term, while
\* the first contains the search term
C19_Witness ==
    /\ op = "matchIcon"
    /\ Len(usedSynonyms) = 2
    /\ ExactOwners = {2}
    /\ FuzzyScore(usedSynonyms[1]) > 0
    /\ ret.keyword = usedSynonyms[2].keyword

-----------------------------------------------------------------------------
(* SpecTerms: extractKeywords applied to one title of Hebrew and Latin     *)
(* letters and spaces, long enough for a two-letter prefix and three more  *)

TermAlphabet == {"he", "vav", "gimel", "a", " "}

InitTerms ==
    /\ title \in StringsUpTo(TermAlphabet, MaxTermLen)
    /\ text = title
    /\ prev = <<>> /\ calls = 0 /\ terms = <<>>
    /\ StoreIdle /\ CallIdle /\ BatchIdle /\ NetIdle /\ LangIdle /\ ApplyIdle /\ PlanIdle

NextTerms == ExtractKeywords

SpecTerms == InitTerms /\ [][NextTerms]_vars

\* extractKeywords has run on a title that is one token starting with vav he;
\* such a title yields the term without its first two characters only through
\* the third rule of stripHebrewPrefixes
PairToken ==
    /\ terms # <<>>
    /\ title = terms[1]
    /\ \A i \in 1..Len(title) : title[i] # " "
    /\ startsWith(title, <<"vav", "he">>)

PairStripped == Member(terms, substring(title, 2))

\* C21 as stated: stripHebrewPrefixes emits the variant with both leading
\* characters removed for a token that starts with vav he exactly when the
\* pair is followed by at least 3 more characters (token length >= 5); a
\* token of vav he plus 2 characters yields no such variant.
C21_PairNeedsThreeMore == PairToken => (PairStripped <=> Len(title) >= 5)

\* C21, amended: stripHebrewPrefixes emits the variant with both leading
\* characters removed for a token that starts with vav he exactly when the
\* pair is followed by at least 2 more characters (token length >= 4); a
\* token of vav he plus 1 character yields no such variant.
C21_PairNeedsTwoMore == PairToken => (PairStripped <=> Len(title) >= 4)

\* a token of vav he plus two characters, with the two characters among its terms
C21_Witness ==
    /\ PairToken
    /\ Len(title) = 4
    /\ PairStripped
    /\ Member(terms, substring(title, 1))

-----------------------------------------------------------------------------
(* Output of normalizeText (SpecNorm)                                      *)

\* the lower-case alphanumeric characters of the alphabets
LowerAlnumChars == {"a", "b"}

\* C22: for every input string the output of normalizeText consists only of
\* lower-case alphanumeric characters, characters of U+0590..U+05FF and
\* single space characters: no other character (no punctuation, no
\* underscore), no two consecutive spaces, no leading or trailing space.
C22_OutputAlphabet ==
    calls >= 1 =>
        /\ \A i \in 1..Len(text) : text[i] \in LowerAlnumChars \cup HebrewChars \cup {" "}
        /\ \A i \in 1..(Len(text) - 1) : ~(text[i] = " " /\ text[i + 1] = " ")
        /\ text # <<>> => text[1] # " " /\ text[Len(text)] # " "

-----------------------------------------------------------------------------
(* Shape of the search terms (SpecTerms)                                   *)

\* the tokens of the normalized title that have two characters or more
LongTokens == {w \in TokensOf(title) : Len(w) >= 2}

\* a long token that contains an extended-script character, with a leading he,
\* vav or vav he removed
StrippedTokens ==
    {substring(w, 1) : w \in {x \in LongTokens :
        hasHebrew(x) /\ (startsWith(x, <<"he">>) \/ startsWith(x, <<"vav">>))}}
    \cup {substring(w, 2) : w \in {x \in LongTokens : startsWith(x, <<"vav", "he">>)}}

\* C23: the first element of extractKeywords(title) is the normalized full
\* title; every token of the normalized title of length >= 2 occurs in the
\* sequence; every element other than the first is such a token, or such a
\* token containing an extended-script character with a leading he, vav or
\* vav he removed; so every element other than the first has length >= 2.
C23_SearchTermShape ==
    terms # <<>> =>
        /\ terms[1] = normalizeText(title)
        /\ \A w \in LongTokens : \E i \in 2..Len(terms) : terms[i] = w
        /\ \A i \in 2..Len(terms) :
              /\ terms[i] \in LongTokens \cup StrippedTokens
              /\ Len(terms[i]) >= 2

\* the title has a one-character token, which is no term, and a token whose
\* stripped variant is a term without being a token
C23_Witness ==
    /\ terms # <<>>
    /\ \E w \in TokensOf(title) : Len(w) = 1 /\ ~Member(terms, w)
    /\ \E i \in 2..Len(terms) : terms[i] \notin LongTokens
    /\ Len(terms) >= 5

-----------------------------------------------------------------------------
(* SpecSuggest: one call of suggestMatches, over tables that may hold a    *)
(* candidate term that normalizes to "" and a keyword that is ""           *)

SuggestPool ==
    { Entry(<<"a", "b">>, << <<"b", "a">> >>),
      Entry(<<"a", "b", "a">>, << <<"a", "b">> >>),
      Entry(<<"b">>, << <<"!">> >>),
      Entry(<<>>, << <<"a", "b">> >>) }

SuggestTables ==
    {t \in UNION {[1..k -> SuggestPool] : k \in 0..MaxKeywords} :
        \A i, j \in 1..Len(t) : i # j => t[i].keyword # t[j].keyword}

InitSuggest ==
    /\ title \in StringsUpTo({"a", "b", " "}, MaxTitleLen)
    /\ synonymsFile \in {File(TRUE, t) : t \in SuggestTables}
    /\ iconMappingsFile = File(TRUE, IconMappingsContent)
    /\ synonymsCache = NoCache
    /\ iconMappingsCache = NoCache
    /\ NormIdle /\ CallIdle /\ BatchIdle /\ NetIdle /\ LangIdle /\ ApplyIdle /\ PlanIdle

NextSuggest == SuggestMatches

SpecSuggest == InitSuggest /\ [][NextSuggest]_vars

\* the (normalized candidate term, search term) pairs of an entry in which one
\* string contains the other and the shorter one is not empty
PositivePairs(entry) ==
    {p \in NormalizedCandidates(entry) \X SearchTermSet :
        /\ includes(p[1], p[2]) \/ includes(p[2], p[1])
        /\ Min(Len(p[1]), Len(p[2])) > 0}

\* r, a pair <<min, max>>, is the greatest of min(len) / max(len) over the pairs
IsMaxRelevance(r, pairs) ==
    /\ \E p \in pairs :
          r[1] * Max(Len(p[1]), Len(p[2])) = Min(Len(p[1]), Len(p[2])) * r[2]
    /\ \A p \in pairs :
          r[1] * Max(Len(p[1]), Len(p[2])) >= Min(Len(p[1]), Len(p[2])) * r[2]

\* C24: for limit at least the number of keywords, suggestMatches returns
\* exactly the keywords that have a pair in which one string contains the
\* other with positive relevance; each returned relevance is the greatest
\* of 100 * (shorter length) / (longer length) over those pairs, and it is
\* greater than 0, at most 100, and never the undefined value 0/0.
C24_SuggestionRelevance ==
    (op = "suggestMatches" /\ limitArg >= Len(usedSynonyms)) =>
        /\ {ret[i].keyword : i \in 1..Len(ret)} =
              {e.keyword : e \in {x \in SeqSet(usedSynonyms) : PositivePairs(x) # {}}}
        /\ \A i, j \in 1..Len(ret) : i # j => ret[i].keyword # ret[j].keyword
        /\ \A i \in 1..Len(ret) :
              /\ ret[i].relevance[2] # 0
              /\ ret[i].relevance[1] > 0
              /\ ret[i].relevance[1] <= ret[i].relevance[2]
              /\ \A e \in SeqSet(usedSynonyms) :
                    e.keyword = ret[i].keyword =>
                        IsMaxRelevance(ret[i].relevance, PositivePairs(e))

\* two keywords are suggested, one with relevance 100 and one with less
C24_Witness ==
    /\ op = "suggestMatches"
    /\ limitArg >= Len(usedSynonyms)
    /\ Len(ret) = 2
    /\ ret[1].relevance[1] = ret[1].relevance[2]
    /\ ret[2].relevance[1] < ret[2].relevance[2]

-----------------------------------------------------------------------------
(* SpecLang: one process calling the exported functions of matchIcon.ts    *)
(* any number of times, each call with a language argument.  The English   *)
(* files are synonymsFile and iconMappingsFile, the Hebrew ones are the    *)
(* two files of lang.                                                      *)

Languages == {"english", "hebrew"}

\* const filePath = language === 'hebrew' ? './yoto_icons_hebrew.json'
\*                                        : CONFIG.YOTO_ICONS_FILE  (lines 14-16)
synonymsFileOf(language) ==
    IF language = "hebrew" THEN lang.synonymsFile ELSE synonymsFile

\* getYotoIconIdsFile(language) (config.ts:23-25)
iconMappingsFileOf(language) ==
    IF language = "hebrew" THEN lang.iconMappingsFile ELSE iconMappingsFile

EnglishTable == << Entry(<<"a", "b">>, << <<"b", "a">> >>) >>
HebrewTable == << Entry(<<"gimel", "gimel">>, << <<"gimel", "he">> >>) >>

InitLang ==
    /\ title \in {<<"a", "b">>, <<"gimel", "gimel">>}
    /\ synonymsFile \in {Unreadable, File(TRUE, EnglishTable)}
    /\ iconMappingsFile = File(TRUE, IconMappingsContent)
    /\ lang \in {[language |-> "english", synonymsFile |-> f,
                  iconMappingsFile |->
                      File(TRUE, << Mapping(<<"gimel", "gimel">>, <<"yoto:#2">>) >>)] :
                 f \in {Unreadable, File(TRUE, HebrewTable)}}
    /\ synonymsCache = NoCache /\ iconMappingsCache = NoCache
    /\ NormIdle /\ CallIdle /\ BatchIdle /\ NetIdle /\ ApplyIdle /\ PlanIdle

\* the two loader calls that open matchIcon, suggestMatches and
\* getIconMappingStats, with the language of the call
LoadFor(language) ==
    /\ synonymsCache' = Cached(loadSynonyms(synonymsCache, synonymsFileOf(language)))
    /\ iconMappingsCache' = Cached(loadIconMappings(iconMappingsFileOf(language)))
    /\ lang' = [lang EXCEPT !.language = language]
    /\ UNCHANGED <<title, synonymsFile, iconMappingsFile, normVars, batchVars,
                   apply, plan, net>>

LangMatchIcon ==
    \E language \in Languages :
        /\ LoadFor(language)
        /\ op' = "matchIcon"
        /\ limitArg' = 0
        /\ ret' = matchIcon(title, synonymsCache'.table, iconMappingsCache'.table)

LangSuggestMatches ==
    \E language \in Languages :
        /\ LoadFor(language)
        /\ op' = "suggestMatches"
        /\ limitArg' = MaxLimit
        /\ ret' = suggestMatches(title, MaxLimit, synonymsCache'.table,
                                 iconMappingsCache'.table)

\* getAvailableKeywords runs loadSynonyms only (lines 177-180)
LangGetAvailableKeywords ==
    \E language \in Languages :
        /\ synonymsCache' = Cached(loadSynonyms(synonymsCache, synonymsFileOf(language)))
        /\ lang' = [lang EXCEPT !.language = language]
        /\ op' = "getAvailableKeywords"
        /\ limitArg' = 0
        /\ ret' = getAvailableKeywords(synonymsCache'.table)
        /\ UNCHANGED <<title, synonymsFile, iconMappingsFile, iconMappingsCache, normVars,
                       batchVars, apply, plan, net>>

LangGetIconMappingStats ==
    \E language \in Languages :
        /\ LoadFor(language)
        /\ op' = "getIconMappingStats"
        /\ limitArg' = 0
        /\ ret' = getIconMappingStats(synonymsCache'.table, iconMappingsCache'.table)

NextLang ==
    \/ LangMatchIcon
    \/ LangSuggestMatches
    \/ LangGetAvailableKeywords
    \/ LangGetIconMappingStats

SpecLang == InitLang /\ [][NextLang]_vars

\* C25: after a call made with language L, the synonym table that answered it
\* is the table of the synonyms file of L, and getAvailableKeywords returned
\* the keywords of that file.
C25_CacheKeyedByLanguage ==
    op # "none" =>
        /\ usedSynonyms = readTable(synonymsFileOf(lang.language))
        /\ op = "getAvailableKeywords" =>
              ret = Keys(readTable(synonymsFileOf(lang.language)))

-----------------------------------------------------------------------------
(* SpecSnapshot: analyzePlaylist while another process (a plan-mode run,   *)
(* whose saveMappings writes the same file after every batch) rewrites the *)
(* icon-mapping file.                                                      *)

\* the file after the other process has saved: "ab" has another icon, "aba"
\* is mapped now
RewrittenMappings ==
    << Mapping(<<"a", "b">>, <<"yoto:#3">>),
       Mapping(<<"a", "b", "a">>, <<"yoto:#1">>),
       Mapping(<<"gimel", "gimel">>, <<"yoto:#2">>) >>

MappingFiles == {File(TRUE, IconMappingsContent), File(TRUE, RewrittenMappings)}

InitSnapshot ==
    /\ InitBatch
    /\ synonymsFile = File(TRUE, << Entry(<<"a", "b">>, << <<"b", "a">> >>),
                                    Entry(<<"a", "b", "a">>, << <<"a", "b">> >>) >>)
    /\ iconMappingsFile \in MappingFiles

\* fs.writeFileSync of the other process (matchIcon.ts:388-398), at any moment
\* of the batch
MappingFileRewritten ==
    /\ pc \in {"fetching", "loop", "ai"}
    /\ iconMappingsFile' \in MappingFiles \ {iconMappingsFile}
    /\ UNCHANGED <<title, normVars, synonymsFile, synonymsCache, iconMappingsCache,
                   callVars, batchVars, modeVars, net>>

NextSnapshot == NextBatch \/ MappingFileRewritten

SpecSnapshot == InitSnapshot /\ [][NextSnapshot]_vars

\* every iconId of matches is the entry of its keyword in the mapping m
ResolvedAgainst(m) ==
    \A i \in 1..Len(matches) :
        matches[i].keyword # Null => matches[i].iconId = iconOf(m, matches[i].keyword)

\* C26: at every moment of an analyzePlaylist run there is one content of the
\* icon-mapping file against which the iconId of every result recorded so far
\* was resolved, whatever another process writes to the file meanwhile.
C26_BatchSnapshot ==
    \E f \in MappingFiles : ResolvedAgainst(readTable(f))

-----------------------------------------------------------------------------
(* Delays between the calls of the semantic fallback *)

\* C27: when analyzePlaylist is awaiting an aiMatchKeyword call that is not the
\* first of the batch, a delay step has run since the previous call completed.
C27_AiCallsDelayed ==
    (pc = "ai" /\ aiReply # NoReturn) => net.delayed

-----------------------------------------------------------------------------
(* SpecFlight: one process running one mode.  Apply mode is analyzePlaylist, *)
(* displayStats and then updateCardWithIcons (part_002:153-184); plan mode   *)
(* is runPlanMode.  net.inFlight counts the external requests issued and not *)
(* yet settled.                                                              *)

InitFlight == InitBatch \/ InitApply \/ InitPlan

NextFlight ==
    \/ (ApplyIdle /\ PlanIdle /\ NextBatch)
    \/ (pc \in {"idle", "reported"} /\ PlanIdle /\ NextApply)
    \/ (pc = "idle" /\ ApplyIdle /\ NextPlan)

SpecFlight == InitFlight /\ [][NextFlight]_vars

\* C28: in analyzePlaylist, in the card update of apply mode and in
\* runPlanMode, at most one external request (playlist fetch, semantic
\* fallback, vision call, card GET or POST) is in flight at any time.
C28_OneRequestInFlight ==
    /\ net.inFlight \in {0, 1}
    /\ net.inFlight = 1 <=>
          \/ pc \in {"fetching", "ai"}
          \/ apply.pc \in {"fetching", "posting"}
          \/ plan.pc = "vision"

\* an apply-mode run whose batch fetched the playlist and asked the semantic
\* fallback, and whose card update has had its GET answered and awaits the POST
C28_Witness ==
    /\ pc = "reported"
    /\ aiReply # NoReturn
    /\ apply.pc = "posting"
    /\ apply.requests = <<"GET", "POST">>
    /\ net.inFlight = 1

-----------------------------------------------------------------------------
(* matchIcon and suggestMatches on the same title and tables *)

\* C29: whenever matchIcon returns keyword null for a title, suggestMatches
\* returns the empty sequence for that title and the same tables, for every
\* limit.
C29_NoMatchNoSuggestion ==
    (op = "suggestMatches" /\ matchIcon(title, usedSynonyms, usedMappings).keyword = Null)
        => ret = <<>>

-----------------------------------------------------------------------------
(* What a reported success of updateCardWithIcons stands for *)

\* the card carries the icon of update u where u's track lives: on the chapter
\* itself for a track that getPlaylist derived from a chapter without tracks,
\* on the track inside its chapter otherwise
Carries(chapters, u) ==
    \E c \in 1..Len(chapters) :
        \/ /\ u.track.chapterKey = Null
           /\ chapters[c].key = u.track.id
           /\ chapters[c].icon = mediaUrl(u.iconId)
        \/ /\ chapters[c].key = u.track.chapterKey
           /\ \E t \in 1..Len(chapters[c].tracks) :
                 /\ chapters[c].tracks[t].key = u.track.trackKey
                 /\ chapters[c].tracks[t].icon = mediaUrl(u.iconId)

\* C30: updateCardWithIcons returns success + failed = number of updates with
\* one of the two 0, and when a call that is no dry run returns success =
\* number of updates, the card it posted carries every update's media URL
\* on the chapter or track of that update.
C30_SuccessIsRealUpdate ==
    apply.pc = "returned" =>
        /\ apply.result.success + apply.result.failed = Len(apply.updates)
        /\ apply.result.success = 0 \/ apply.result.failed = 0
        /\ (~apply.dryRun /\ apply.requests = <<"GET", "POST">>
               /\ apply.result.success = Len(apply.updates)) =>
              \A i \in 1..Len(apply.updates) : Carries(apply.cardData, apply.updates[i])

=============================================================================
